---- MODULE Spec2Model ----
(***************************************************************************)
(* DialogueEngine (src/ai_core/dialogue_engine.py): one request/response    *)
(* cycle of generate_response, and the pure pieces it is built from.        *)
(*                                                                          *)
(* Strings the code examines (strip, lower, "in", startswith, split, len)   *)
(* are sequences of symbols.  A symbol is one character, or an indivisible  *)
(* run of characters that the code never looks into (an interpolated        *)
(* style or mood name, an action code such as "A100:hug").  Chinese         *)
(* literals of the source are written in pinyin, one symbol per character.  *)
(* Names the code only compares or uses as dictionary keys (mood_tag,       *)
(* user_id, llm_url, tts_url, the growth stage, the behaviour tag, the      *)
(* audio URL) are atomic strings.  An optional integer (touch_zone) or an   *)
(* optional string result (llm_out) is <<>> for None and <<v>> for v.       *)
(***************************************************************************)
EXTENDS Integers, Sequences, FiniteSets, TLC

VARIABLES
    llm_url,       \* self.llm_url
    tts_url,       \* self.tts_url
    tables,        \* constants.FACE_ANIMATION_MAP / constants.ACTION_MAP
    pc,            \* position of generate_response
    req,           \* the arguments of the current call
    user_text,     \* the local name user_text (the parameter, until rebound)
    stage,         \* self.stage
    style,         \* style = self.personality.get_personality_style()
    past_count,    \* len(past)
    past_summary,  \* past_summary
    base_resp,     \* base_resp
    backend,       \* what the generation backend does when it is run
    loop_running,  \* whether asyncio.get_running_loop() found a loop
    task,          \* the asyncio task created by this request
    response,      \* response
    synth,         \* what call_tts did in this request
    action,        \* action
    expression,    \* expression
    result,        \* the DialogueResponse returned, or the fault raised
    calls,         \* the collaborator calls of this request, in order
    added,         \* the records this request passed to memory.add_memory
    probe          \* the last application of a pure piece (unit runs)

vars == <<llm_url, tts_url, tables, pc, req, user_text, stage, style,
          past_count, past_summary, base_resp, backend, loop_running, task,
          response, synth, action, expression, result, calls, added, probe>>

None == "None"

\* Python truthiness of an optional atomic string.
Truthy(x) == x /= None /\ x /= ""

----------------------------------------------------------------------------
\* str methods used by the code

IsSpace(c) == c \in {" ", "\t", "\n"}

RECURSIVE LStrip(_)
LStrip(s) ==
    IF s = <<>> THEN s
    ELSE IF IsSpace(Head(s)) THEN LStrip(Tail(s)) ELSE s

RECURSIVE RStrip(_)
RStrip(s) ==
    IF s = <<>> THEN s
    ELSE IF IsSpace(s[Len(s)]) THEN RStrip(SubSeq(s, 1, Len(s) - 1)) ELSE s

Strip(s) == RStrip(LStrip(s))

UpperToLower ==
    [c \in {"A", "B", "D", "E", "H", "J", "K", "N", "O", "S", "T"} |->
        CASE c = "A" -> "a" [] c = "B" -> "b" [] c = "D" -> "d"
          [] c = "E" -> "e" [] c = "H" -> "h" [] c = "J" -> "j"
          [] c = "K" -> "k" [] c = "N" -> "n" [] c = "O" -> "o"
          [] c = "S" -> "s" [] c = "T" -> "t"]

LowerChar(c) == IF c \in DOMAIN UpperToLower THEN UpperToLower[c] ELSE c

Lower(s) == [i \in 1..Len(s) |-> LowerChar(s[i])]

\* sub in s
Contains(sub, s) ==
    \E i \in 1..(Len(s) - Len(sub) + 1) : SubSeq(s, i, i + Len(sub) - 1) = sub

StartsWith(s, p) == Len(s) >= Len(p) /\ SubSeq(s, 1, Len(p)) = p

\* s.split(sep) for a one-symbol separator: always at least one part.
RECURSIVE Split(_, _)
Split(s, sep) ==
    IF \A i \in 1..Len(s) : s[i] /= sep THEN <<s>>
    ELSE LET k == CHOOSE i \in 1..Len(s) :
                      s[i] = sep /\ \A j \in 1..(i - 1) : s[j] /= sep
         IN  <<SubSeq(s, 1, k - 1)>> \o Split(SubSeq(s, k + 1, Len(s)), sep)

----------------------------------------------------------------------------
\* DialogueEngine._infer_behavior_tag

\* The tagger with the positive rule tried before the negative one.
infer_behavior_tag_praise_first(text, mood) ==
    LET text_l == Lower(text) IN
    IF mood \in {"happy", "excited"}
       \/ Contains(<<"t", "h", "a", "n", "k", "s">>, text_l)
    THEN "praise"
    ELSE IF mood = "angry" \/ Contains(<<"b", "a", "d">>, text_l)
    THEN "criticism"
    ELSE IF Contains(<<"j", "o", "k", "e">>, text_l)
            \/ Contains(<<"h", "a", "h", "a">>, text_l)
    THEN "joke"
    ELSE IF mood = "sad"
    THEN "support"
    ELSE None

infer_behavior_tag(text, mood) ==
    LET text_l == Lower(text) IN
    IF mood = "angry" \/ Contains(<<"b", "a", "d">>, text_l)
    THEN "criticism"
    ELSE IF mood \in {"happy", "excited"}
            \/ Contains(<<"t", "h", "a", "n", "k", "s">>, text_l)
    THEN "praise"
    ELSE IF Contains(<<"j", "o", "k", "e">>, text_l)
            \/ Contains(<<"h", "a", "h", "a">>, text_l)
    THEN "joke"
    ELSE IF mood = "sad"
    THEN "support"
    ELSE None

----------------------------------------------------------------------------
\* The memory summary of generate_response.  A record of the memory store is
\* [user_text, ai_response, mood_tag], mood_tag being <<>> when the key is
\* absent.

MinReplyLen == 2

\* p.get("mood_tag", "neutral")
RecordMood(p) == IF p.mood_tag = <<>> THEN "neutral" ELSE p.mood_tag[1]

\* The test of line 189, on the stripped reply and the stripped user text.
IsValidRecord(p) ==
    LET reply == Strip(p.ai_response)
        said  == Strip(p.user_text)
    IN  /\ reply /= <<>>
        /\ Len(reply) > MinReplyLen
        /\ ~StartsWith(reply, <<"[">>)
        /\ said /= <<>>

RECURSIVE valid_responses(_)
valid_responses(past) ==
    IF past = <<>> THEN <<>>
    ELSE LET p == Head(past) IN
         (IF IsValidRecord(p)
          THEN <<[user |-> Strip(p.user_text),
                  ai   |-> Strip(p.ai_response),
                  mood |-> RecordMood(p)]>>
          ELSE <<>>) \o valid_responses(Tail(past))

\* mood_counts[m]
MoodCount(valid, m) == Cardinality({i \in 1..Len(valid) : valid[i].mood = m})

\* Position of m among the keys of mood_counts (a dict keeps insertion order).
FirstSeen(valid, m) ==
    CHOOSE i \in 1..Len(valid) :
        valid[i].mood = m /\ \A j \in 1..(i - 1) : valid[j].mood /= m

\* max(mood_counts.items(), key=lambda x: x[1])[0]: the first key, in
\* insertion order, whose count is the largest.
dominant_mood(valid) ==
    LET keys == {valid[i].mood : i \in 1..Len(valid)} IN
    CHOOSE m \in keys :
        \A n \in keys :
            \/ MoodCount(valid, m) > MoodCount(valid, n)
            \/ /\ MoodCount(valid, m) = MoodCount(valid, n)
               /\ FirstSeen(valid, m) <= FirstSeen(valid, n)

\* "。这些对话中用户情绪主要是{dominant_mood}"
MoodClause(m) ==
    <<".", "zhe", "xie", "dui", "hua", "zhong", "yong", "hu", "qing", "xu",
      "zhu", "yao", "shi", m>>

\* "用户说'{user}'时，我回复'{ai}'"
FirstClause(r) ==
    <<"yong", "hu", "shuo", "'">> \o r.user
        \o <<"'", "shi", ",", "wo", "hui", "fu", "'">> \o r.ai \o <<"'">>

\* "。另外，当用户说'{user}'时，我回复'{ai}'"
SecondClause(r) ==
    <<".", "ling", "wai", ",", "dang", "yong", "hu", "shuo", "'">> \o r.user
        \o <<"'", "shi", ",", "wo", "hui", "fu", "'">> \o r.ai \o <<"'">>

HasMoodClause(valid) == valid /= <<>> /\ dominant_mood(valid) /= "neutral"

summarize(past) ==
    LET valid == valid_responses(past) IN
    IF past = <<>> \/ valid = <<>> THEN <<>>
    ELSE FirstClause(valid[1])
         \o (IF Len(valid) > 1 THEN SecondClause(valid[2]) ELSE <<>>)
         \o (IF HasMoodClause(valid) THEN MoodClause(dominant_mood(valid))
             ELSE <<>>)

\* The name user_text after the loop of lines 185-194: line 187 rebinds it to
\* the stripped user text of every record the loop visits.
RECURSIVE rebound_user_text(_, _)
rebound_user_text(text, past) ==
    IF past = <<>> THEN text
    ELSE rebound_user_text(Strip(Head(past).user_text), Tail(past))

----------------------------------------------------------------------------
\* The stage baseline, lines 221-229.

Sprout == "sprout"
Enlighten == "enlighten"
Resonate == "resonate"
Awaken == "awaken"

BabbleText == <<"ya", "ya">>      \* "呀呀"
BabbleEmpty == <<"yi", "ya">>     \* "咿呀"
Greeting == <<"ni", "hao">>       \* "你好"

baseline(stg, sty, summary, text) ==
    IF stg = Sprout THEN (IF text /= <<>> THEN BabbleText ELSE BabbleEmpty)
    ELSE IF stg = Enlighten THEN Greeting
    ELSE IF stg = Resonate
    THEN <<"[", sty, "]", " ">> \o text
             \o <<"?", " ", "wo", "zai", "ting", "o">>
    ELSE <<"[", sty, "]", " ", "Based on our chats:", " ">> \o summary
             \o <<" ", "|", " ">> \o text

----------------------------------------------------------------------------
\* Expression and action, lines 364-391.  T is the pair of tables
\* [face |-> FACE_ANIMATION_MAP, action |-> ACTION_MAP].

DefaultFace == << <<"E000:pingjing biaoqing">>, <<"ziran zhuangtai">> >>
DefaultAction == <<"A000:breathing", "|", "qingwei huxi dongzuo">>

TouchHug == <<"A100:hug", "|", "yongbao dongzuo">>
TouchPat == <<"A101:pat", "|", "qingpai dongzuo">>
TouchTickle == <<"A102:tickle", "|", "naoyang dongzuo">>

mood_key(mood, T) == IF mood \in DOMAIN T.face THEN mood ELSE "happy"

face_anim(mood, T) ==
    IF mood_key(mood, T) \in DOMAIN T.face
    THEN T.face[mood_key(mood, T)] ELSE DefaultFace

map_expression(mood, T) ==
    Strip(face_anim(mood, T)[1] \o <<" ", "|", " ">> \o face_anim(mood, T)[2])

action_raw(mood, T) ==
    IF mood_key(mood, T) \in DOMAIN T.action
    THEN T.action[mood_key(mood, T)] ELSE DefaultAction

\* The loop of lines 375-381 over action_parts, from index i (1-based here).
RECURSIVE pair_up(_, _)
pair_up(parts, i) ==
    IF i > Len(parts) THEN <<>>
    ELSE IF i + 1 <= Len(parts)
    THEN <<Strip(parts[i]) \o <<"|">> \o Strip(parts[i + 1])>>
             \o pair_up(parts, i + 2)
    ELSE <<Strip(parts[i])>> \o pair_up(parts, i + 2)

mood_actions(mood, T) == pair_up(Split(action_raw(mood, T), "|"), 1)

\* The zone lookup with a wrong default entry.
touch_action_default_pat(zone) ==
    IF zone = <<0>> THEN TouchHug
    ELSE IF zone = <<1>> THEN TouchPat
    ELSE IF zone = <<2>> THEN TouchTickle
    ELSE TouchPat

\* touch_actions.get(touch_zone, "A100:hug|拥抱动作")
touch_action(zone) ==
    IF zone = <<0>> THEN TouchHug
    ELSE IF zone = <<1>> THEN TouchPat
    ELSE IF zone = <<2>> THEN TouchTickle
    ELSE TouchHug

map_action(mood, touched, zone, T) ==
    mood_actions(mood, T)
        \o (IF touched THEN <<touch_action(zone)>> ELSE <<>>)

----------------------------------------------------------------------------
\* Inputs and collaborators of generate_response

Texts == {<<>>, <<"h", "i">>}
Moods == {"sad", "neutral", "curious"}
UserIds == {"unknown", "u1"}
TouchZones == {<<>>, <<2>>}
Stages == {Sprout, Enlighten, Resonate, Awaken}
Styles == {"gentle"}
LlmUrls == {None, "qwen", "qwen-service", "doubao", "http://llm"}
TtsUrls == {None, "http://tts"}

Requests ==
    [user_text : Texts, mood_tag : Moods, user_id : UserIds,
     touched : BOOLEAN, touch_zone : TouchZones]

\* constants.FACE_ANIMATION_MAP and constants.ACTION_MAP.
TypicalTables ==
    [face |->
        [m \in {"happy", "sad", "neutral", "angry"} |->
            << <<"E", m>>, <<"face", " ", m>> >>],
     action |->
        [m \in {"happy", "sad", "neutral", "angry"} |->
            IF m = "happy"
            THEN <<"A001:nod", "|", "diantou", "|", "A002:sway", "|", "yaobai">>
            ELSE <<"A", m, "|", "move", " ", m>>]]

\* Tables without a "happy" entry, with padding and an unpaired last part.
SparseTables ==
    [face |-> [m \in {"sad"} |-> << <<" ">>, <<>> >>],
     action |->
        [m \in {"sad"} |-> <<" ", "A9", " ", "|", "d", "|", " ", "A10", " ">>]]

\* Tables whose entries are empty strings.
EmptyTables ==
    [face |-> [m \in {"happy", "sad"} |-> << <<>>, <<>> >>],
     action |-> [m \in {"happy", "sad"} |-> <<>>]]

TableChoices == {TypicalTables, SparseTables, EmptyTables}

\* Records the memory store may return from query_memory.
OldRecord ==
    [user_text |-> <<"o", "l", "d">>,
     ai_response |-> <<"o", "k", "a", "y">>,
     mood_tag |-> <<"sad">>]

BlankRecord ==
    [user_text |-> <<" ">>,
     ai_response |-> <<"o", "k", "a", "y">>,
     mood_tag |-> <<>>]

PastRecords == {OldRecord, BlankRecord}

MaxPast == 1

SeqsUpTo(S, n) == UNION {[1..k -> S] : k \in 0..n}

\* What the generation backend does when its call is run to its end: it
\* raises, or returns None (<<>>) or a string (<<s>>).
NotCalled == [kind |-> "none", out |-> <<>>]

BackendOutcomes ==
    {[kind |-> "fault", out |-> <<>>]}
        \cup {[kind |-> "return", out |-> o] :
                o \in {<<>>, << <<>> >>, << <<" ">> >>,
                       << <<" ", "o", "k", " ">> >>}}

\* What call_tts does: it raises, or returns a string.
TtsOutcomes == {"fault", "", "http://tts/1.wav"}

NoResult ==
    [kind |-> "none", text |-> <<>>, audio |-> "", action |-> <<>>,
     expression |-> <<>>]

NoRequest ==
    [user_text |-> <<>>, mood_tag |-> "neutral", user_id |-> "unknown",
     touched |-> FALSE, touch_zone |-> <<>>]

----------------------------------------------------------------------------
\* generate_response, step by step

\* The updates with the touch signal sent before the mood.
personality_updates_touch_first(text, mood, touched) ==
    (IF touched THEN << <<"update", "touch">> >> ELSE <<>>)
        \o << <<"update", mood>> >>
        \o (IF Truthy(infer_behavior_tag(text, mood))
            THEN << <<"update", infer_behavior_tag(text, mood)>> >>
            ELSE <<>>)

\* Lines 162-169: the personality updates of one request, in call order.
personality_updates(text, mood, touched) ==
    << <<"update", mood>> >>
        \o (IF touched THEN << <<"update", "touch">> >> ELSE <<>>)
        \o (IF Truthy(infer_behavior_tag(text, mood))
            THEN << <<"update", infer_behavior_tag(text, mood)>> >>
            ELSE <<>>)

IsSuspending(url) == url = "qwen" \/ url = "qwen-service"

\* The output taken without the test for a blank string.
accept_output_unchecked(out, base) ==
    IF out /= <<>> THEN Strip(out[1]) ELSE base

\* Lines 342-346: the backend's output is used when it is non-blank.
accept_output(out, base) ==
    IF out /= <<>> /\ out[1] /= <<>> /\ Strip(out[1]) /= <<>>
    THEN Strip(out[1])
    ELSE base

\* Lines 285-351.  With a running loop the task has only been created when
\* task.result() is called, so that call raises InvalidStateError, which the
\* handler of line 347 catches like any fault of the backend.
dispatch(url, loop, b, base) ==
    IF ~Truthy(url) THEN base
    ELSE IF IsSuspending(url) /\ loop THEN base
    ELSE IF b.kind = "fault" THEN base
    ELSE accept_output(b.out, base)

\* The record handed to memory.add_memory, lines 354-361.
memory_record(text, resp, r) ==
    [user_text |-> text, ai_response |-> resp, mood_tag |-> r.mood_tag,
     user_id |-> r.user_id, touched |-> r.touched,
     touch_zone |-> r.touch_zone]

\* The audio without the sentinel for an empty synthesis result.
resolve_audio_no_sentinel(url, tts) ==
    IF Truthy(url) THEN tts ELSE "n/a"

\* Lines 397-399.
resolve_audio(url, tts) ==
    IF Truthy(url) /\ tts /= "" THEN tts ELSE "n/a"

Init ==
    /\ llm_url \in LlmUrls
    /\ tts_url \in TtsUrls
    /\ tables \in TableChoices
    /\ pc = "idle"
    /\ req = NoRequest
    /\ user_text = <<>>
    /\ stage \in Stages
    /\ style = ""
    /\ past_count = 0
    /\ past_summary = <<>>
    /\ base_resp = <<>>
    /\ backend = NotCalled
    /\ loop_running = FALSE
    /\ task = "none"
    /\ response = <<>>
    /\ synth = "none"
    /\ action = <<>>
    /\ expression = <<>>
    /\ result = NoResult
    /\ calls = <<>>
    /\ added = <<>>
    /\ probe = [op |-> "none"]

\* Lines 159-169: a call of generate_response starts; the personality gets
\* its updates.
Start ==
    /\ pc = "idle"
    /\ \E r \in Requests :
        /\ req' = r
        /\ user_text' = r.user_text
        /\ calls' = personality_updates(r.user_text, r.mood_tag, r.touched)
    /\ pc' = "stage"
    /\ UNCHANGED <<llm_url, tts_url, tables, stage, style, past_count,
                   past_summary, base_resp, backend, loop_running, task,
                   response, synth, action, expression, result, added, probe>>

\* Lines 170-176: the growth stage is read, then the personality snapshot.
RefreshStage ==
    /\ pc = "stage"
    /\ stage' \in Stages
    /\ style' \in Styles
    /\ calls' = calls \o << <<"get_growth_stage">>,
                            <<"get_personality_style">>,
                            <<"get_personality_summary">>,
                            <<"get_dominant_traits">> >>
    /\ pc' = "memory"
    /\ UNCHANGED <<llm_url, tts_url, tables, req, user_text, past_count,
                   past_summary, base_resp, backend, loop_running, task,
                   response, synth, action, expression, result, added, probe>>

\* Lines 178-219: the memory query and the summary of what it returned.
QueryMemory ==
    /\ pc = "memory"
    /\ \E past \in SeqsUpTo(PastRecords, MaxPast) :
        /\ past_count' = Len(past)
        /\ past_summary' = summarize(past)
        /\ user_text' = rebound_user_text(user_text, past)
    /\ calls' = Append(calls, <<"query_memory">>)
    /\ pc' = "baseline"
    /\ UNCHANGED <<llm_url, tts_url, tables, req, stage, style, base_resp,
                   backend, loop_running, task, response, synth, action, expression,
                   result, added, probe>>

\* Lines 221-285: the stage baseline and the fused prompt.
Baseline ==
    /\ pc = "baseline"
    /\ base_resp' = baseline(stage, style, past_summary, user_text)
    /\ response' = baseline(stage, style, past_summary, user_text)
    /\ calls' = Append(calls, <<"fuse_prompts">>)
    /\ pc' = "llm"
    /\ UNCHANGED <<llm_url, tts_url, tables, req, user_text, stage, style,
                   past_count, past_summary, backend, loop_running, task,
                   synth, action, expression, result, added, probe>>

\* Lines 286-351: the generation backend, when one is configured.
Dispatch ==
    /\ pc = "llm"
    /\ \E b \in BackendOutcomes, loop \in BOOLEAN :
        /\ Truthy(llm_url) \/ b = [kind |-> "fault", out |-> <<>>]
        /\ IsSuspending(llm_url) \/ ~loop
        /\ backend' = IF Truthy(llm_url) THEN b ELSE NotCalled
        /\ loop_running' = loop
        /\ response' = dispatch(llm_url, loop, b, base_resp)
        /\ task' = IF IsSuspending(llm_url) /\ loop THEN "pending" ELSE "none"
        /\ calls' =
            IF ~Truthy(llm_url) THEN calls
            ELSE IF IsSuspending(llm_url) /\ loop
            THEN Append(calls, <<"create_task">>)
            ELSE Append(calls, <<"call_llm">>)
    /\ pc' = "store"
    /\ UNCHANGED <<llm_url, tts_url, tables, req, user_text, stage, style,
                   past_count, past_summary, base_resp, synth, action, expression,
                   result, added, probe>>

\* Lines 353-362: the interaction is written to memory.
StoreMemory ==
    /\ pc = "store"
    /\ added' = Append(added, memory_record(user_text, response, req))
    /\ calls' = Append(calls, <<"add_memory">>)
    /\ pc' = "map"
    /\ UNCHANGED <<llm_url, tts_url, tables, req, user_text, stage, style,
                   past_count, past_summary, base_resp, backend, loop_running,
                   task, response, synth, action, expression, result, probe>>

\* Lines 364-394: expression and action.
MapMood ==
    /\ pc = "map"
    /\ expression' = map_expression(req.mood_tag, tables)
    /\ action' = map_action(req.mood_tag, req.touched, req.touch_zone, tables)
    /\ pc' = "tts"
    /\ UNCHANGED <<llm_url, tts_url, tables, req, user_text, stage, style,
                   past_count, past_summary, base_resp, backend, loop_running,
                   task, response, synth, result, calls, added, probe>>

\* Lines 396-408: the audio, and the response returned.  A fault of call_tts
\* is raised to the caller of generate_response.
Synthesize ==
    /\ pc = "tts"
    /\ \E tts \in TtsOutcomes :
        /\ Truthy(tts_url) \/ tts = ""
        /\ synth' = IF Truthy(tts_url) THEN tts ELSE "none"
        /\ IF Truthy(tts_url) /\ tts = "fault"
           THEN /\ pc' = "raised"
                /\ result' = [NoResult EXCEPT !.kind = "raised"]
           ELSE /\ pc' = "returned"
                /\ result' = [kind |-> "returned",
                              text |-> response,
                              audio |-> resolve_audio(tts_url, tts),
                              action |-> action,
                              expression |-> expression]
    /\ calls' = IF Truthy(tts_url) THEN Append(calls, <<"call_tts">>)
                ELSE calls
    /\ UNCHANGED <<llm_url, tts_url, tables, req, user_text, stage, style,
                   past_count, past_summary, base_resp, backend, loop_running,
                   task, response, action, expression, added, probe>>

\* Line 317: the task created inside a running loop is run by that loop once
\* generate_response, which never yields, has ended.
RunTask ==
    /\ pc \in {"returned", "raised"}
    /\ task = "pending"
    /\ task' = "done"
    /\ calls' = Append(calls, <<"async_call_llm">>)
    /\ UNCHANGED <<llm_url, tts_url, tables, pc, req, user_text, stage, style,
                   past_count, past_summary, base_resp, backend, loop_running,
                   response, synth, action, expression, result, added, probe>>

\* The call has ended: its frame is gone, and the engine, which keeps only
\* its configuration and self.stage between calls, can be called again.
Leave ==
    /\ pc \in {"returned", "raised"}
    /\ pc' = "idle"
    /\ req' = NoRequest
    /\ user_text' = <<>>
    /\ style' = ""
    /\ past_count' = 0
    /\ past_summary' = <<>>
    /\ base_resp' = <<>>
    /\ backend' = NotCalled
    /\ loop_running' = FALSE
    /\ task' = "none"
    /\ response' = <<>>
    /\ synth' = "none"
    /\ action' = <<>>
    /\ expression' = <<>>
    /\ result' = NoResult
    /\ calls' = <<>>
    /\ added' = <<>>
    /\ UNCHANGED <<llm_url, tts_url, tables, stage, probe>>

Next ==
    \/ Start
    \/ RefreshStage
    \/ QueryMemory
    \/ Baseline
    \/ Dispatch
    \/ StoreMemory
    \/ MapMood
    \/ Synthesize
    \/ RunTask
    \/ Leave

Spec == Init /\ [][Next]_vars

----------------------------------------------------------------------------
\* The pure pieces applied to inputs of their own: _infer_behavior_tag, the
\* memory summary and the expression/action mapping.

TagWords ==
    {<<"b", "a", "d">>, <<"B", "a", "D">>, <<"t", "h", "a", "n", "k", "s">>,
     <<"T", "H", "A", "N", "K", "S">>, <<"j", "o", "k", "e">>,
     <<"H", "a", "h", "a">>, <<"h", "i">>, <<"b", "a">>, <<" ">>}

MaxWords == 2

RECURSIVE WordTexts(_)
WordTexts(n) ==
    IF n = 0 THEN {<<>>}
    ELSE {<<>>} \cup {w \o t : w \in TagWords, t \in WordTexts(n - 1)}

TagMoods ==
    {"angry", "happy", "excited", "sad", "neutral", "curious", "Angry"}

SummaryRecords ==
    [user_text : {<<"o", "l", "d">>, <<" ">>},
     ai_response : {<<"o", "k", "a", "y">>, <<"[", "x", "]", "!">>},
     mood_tag : {<<>>, <<"sad">>, <<"neutral">>}]

MaxRecords == 3

MapMoods == {"happy", "sad", "neutral", "angry", "curious"}

MaxZone == 3

MapZones == {<<>>} \cup {<<z>> : z \in (0 - 1)..MaxZone}

MapTables == {TypicalTables, SparseTables, EmptyTables}

TagInputs ==
    {[op |-> "tag", done |-> FALSE, text |-> t, mood |-> m, out |-> None] :
        t \in WordTexts(MaxWords), m \in TagMoods}

SummaryInputs ==
    {[op |-> "summary", done |-> FALSE, past |-> p, out |-> <<>>] :
        p \in SeqsUpTo(SummaryRecords, MaxRecords)}

MapInputs ==
    {[op |-> "map", done |-> FALSE, mood |-> m, touched |-> t, zone |-> z,
      T |-> tb, expression |-> <<>>, action |-> <<>>] :
        m \in MapMoods, t \in BOOLEAN, z \in MapZones, tb \in MapTables}

InitFn ==
    /\ llm_url = None
    /\ tts_url = None
    /\ tables = TypicalTables
    /\ pc = "idle"
    /\ req = NoRequest
    /\ user_text = <<>>
    /\ stage = Sprout
    /\ style = ""
    /\ past_count = 0
    /\ past_summary = <<>>
    /\ base_resp = <<>>
    /\ backend = NotCalled
    /\ loop_running = FALSE
    /\ task = "none"
    /\ response = <<>>
    /\ synth = "none"
    /\ action = <<>>
    /\ expression = <<>>
    /\ result = NoResult
    /\ calls = <<>>
    /\ added = <<>>
    /\ probe \in TagInputs \cup SummaryInputs \cup MapInputs

pipeline_vars ==
    <<llm_url, tts_url, tables, pc, req, user_text, stage, style, past_count,
      past_summary, base_resp, backend, loop_running, task, response, synth,
      action, expression, result, calls, added>>

ApplyTagger ==
    /\ probe.op = "tag" /\ ~probe.done
    /\ probe' = [probe EXCEPT !.done = TRUE,
                              !.out = infer_behavior_tag(probe.text, probe.mood)]
    /\ UNCHANGED pipeline_vars

ApplySummarizer ==
    /\ probe.op = "summary" /\ ~probe.done
    /\ probe' = [probe EXCEPT !.done = TRUE, !.out = summarize(probe.past)]
    /\ UNCHANGED pipeline_vars

ApplyMapper ==
    /\ probe.op = "map" /\ ~probe.done
    /\ probe' = [probe EXCEPT
                    !.done = TRUE,
                    !.expression = map_expression(probe.mood, probe.T),
                    !.action = map_action(probe.mood, probe.touched,
                                          probe.zone, probe.T)]
    /\ UNCHANGED pipeline_vars

NextFn ==
    \/ ApplyTagger
    \/ ApplySummarizer
    \/ ApplyMapper

SpecFn == InitFn /\ [][NextFn]_vars

----------------------------------------------------------------------------
\* Properties of generate_response (specification Spec)

AfterDispatch == pc \in {"store", "map", "tts", "returned", "raised"}
AfterStore == pc \in {"map", "tts", "returned", "raised"}
AfterBaseline == pc \in {"llm", "store", "map", "tts", "returned", "raised"}

\* The backend's call, run to its end, gives no usable text: it raises, or
\* returns None, "" or only whitespace.
BackendFails ==
    /\ Truthy(llm_url)
    /\ \/ backend.kind = "fault"
       \/ /\ backend.kind = "return"
          /\ \/ backend.out = <<>>
             \/ \A i \in 1..Len(backend.out[1]) : IsSpace(backend.out[1][i])

\* The backend's call, run to its end, returns text that is not blank.
BackendAnswers ==
    /\ Truthy(llm_url)
    /\ backend.kind = "return"
    /\ backend.out /= <<>>
    /\ \E i \in 1..Len(backend.out[1]) : ~IsSpace(backend.out[1][i])

\* C1: every DialogueResponse that generate_response returns has a non-empty
\* text, a non-empty audio, a non-empty action list and a non-empty
\* expression, whatever the text, mood, touch, stage and backend outcome.
AllFieldsPopulated ==
    result.kind = "returned" =>
        /\ result.text /= <<>>
        /\ result.audio /= ""
        /\ result.action /= <<>>
        /\ result.expression /= <<>>

\* A response returned for an empty text and an unrecognized mood, after the
\* backend returned a blank string and the synthesis an empty one.
AllFieldsPopulatedWitness ==
    /\ result.kind = "returned"
    /\ req.user_text = <<>>
    /\ req.mood_tag = "curious"
    /\ stage = Sprout
    /\ backend = [kind |-> "return", out |-> << <<" ">> >>]
    /\ synth = ""
    /\ result.audio = "n/a"

\* C2: when a backend is configured and its call raises or returns None, an
\* empty or a blank string, generate_response goes on past the backend call,
\* the response text is the baseline of this request, and memory gets one
\* record of this request whose ai_response is that baseline.
BackendFailureFallsBack ==
    (AfterDispatch /\ BackendFails) =>
        /\ response = base_resp
        /\ AfterStore =>
            /\ Len(added) = 1
            /\ added[1].ai_response = base_resp
        /\ result.kind = "returned" => result.text = base_resp
        /\ pc = "raised" => synth = "fault"

\* The call of a blocking backend raised, and the response was returned.
BackendFailureWitness ==
    /\ result.kind = "returned"
    /\ llm_url = "doubao"
    /\ backend.kind = "fault"
    /\ stage = Resonate
    /\ Len(added) = 1
    /\ result.text = base_resp

\* C3: a request that reaches the write-back calls add_memory once, with the
\* user_text passed to this request, the final response text and the
\* request's mood_tag, user_id, touched and touch_zone, whatever the memory
\* query returned.
MemoryGetsRequestText ==
    AfterStore =>
        added = << [user_text |-> req.user_text,
                    ai_response |-> response,
                    mood_tag |-> req.mood_tag,
                    user_id |-> req.user_id,
                    touched |-> req.touched,
                    touch_zone |-> req.touch_zone] >>

\* C4: for the suspending backend the result is the same with and without a
\* running event loop: when the call would give non-blank text, the call has
\* been run to its end before the response is built, and the response text is
\* that text trimmed.
SuspendingBackendSameResult ==
    (AfterDispatch /\ IsSuspending(llm_url) /\ BackendAnswers) =>
        /\ response = Strip(backend.out[1])
        /\ \E i \in 1..Len(calls) : calls[i] = <<"call_llm">>

\* C5: a fault of call_tts does not leave generate_response, which returns a
\* response whose audio is "n/a"; an empty synthesis result and no speech
\* backend give audio "n/a" too.
SpeechFaultContained ==
    (pc \in {"returned", "raised"} /\ synth \in {"fault", "", "none"}) =>
        /\ result.kind = "returned"
        /\ result.audio = "n/a"

\* C6: the baseline is computed from the user_text passed to this request:
\* in stage sprout the token depends on whether that text is empty, in stage
\* resonate that text is echoed; the records of the memory query do not
\* change which text is used.
BaselineFromRequestText ==
    AfterBaseline =>
        /\ stage = Sprout =>
            base_resp =
                IF req.user_text /= <<>> THEN BabbleText ELSE BabbleEmpty
        /\ stage = Resonate =>
            base_resp = <<"[", style, "]", " ">> \o req.user_text
                            \o <<"?", " ", "wo", "zai", "ting", "o">>

\* The calls of personality.update are calls 1..n of the request.
UpdateCalls == {i \in 1..Len(calls) : calls[i][1] = "update"}

\* C10: in a request the personality gets update(mood_tag) first, then
\* update("touch") exactly when touched, then update(tag) exactly when a
\* behaviour tag was inferred, and every other collaborator call of the
\* request (stage, snapshot, memory query, backend, write-back) comes after
\* the last update.
PersonalityUpdatedFirst ==
    pc /= "idle" =>
        LET tag == infer_behavior_tag(req.user_text, req.mood_tag)
            n   == Cardinality(UpdateCalls)
        IN  /\ UpdateCalls = 1..n
            /\ n = 1 + (IF req.touched THEN 1 ELSE 0)
                     + (IF tag /= None THEN 1 ELSE 0)
            /\ calls[1] = <<"update", req.mood_tag>>
            /\ req.touched => calls[2] = <<"update", "touch">>
            /\ tag /= None => calls[n] = <<"update", tag>>

\* A touched request with an inferred tag that used every collaborator.
PersonalityUpdatedFirstWitness ==
    /\ pc = "returned"
    /\ req.touched
    /\ infer_behavior_tag(req.user_text, req.mood_tag) = "support"
    /\ calls = << <<"update", "sad">>, <<"update", "touch">>,
                  <<"update", "support">>, <<"get_growth_stage">>,
                  <<"get_personality_style">>, <<"get_personality_summary">>,
                  <<"get_dominant_traits">>, <<"query_memory">>,
                  <<"fuse_prompts">>, <<"call_llm">>, <<"add_memory">>,
                  <<"call_tts">> >>

----------------------------------------------------------------------------
\* Properties of the pure pieces (specification SpecFn)

Last(q) == q[Len(q)]

\* C7: for every mood, when touched is true the action list is the whole
\* mood-derived list (at least one entry) followed by exactly one touch
\* action: hug for zone 0, pat for zone 1, tickle for zone 2, hug for an
\* absent or any other zone; when touched is false nothing is appended.
TouchActionAppended ==
    (probe.op = "map" /\ probe.done) =>
        LET derived == mood_actions(probe.mood, probe.T)
            code == IF probe.zone = <<1>> THEN "A101:pat"
                    ELSE IF probe.zone = <<2>> THEN "A102:tickle"
                    ELSE "A100:hug"
        IN  /\ Len(derived) >= 1
            /\ ~probe.touched => probe.action = derived
            /\ probe.touched =>
                /\ Len(probe.action) = Len(derived) + 1
                /\ SubSeq(probe.action, 1, Len(derived)) = derived
                /\ Head(Last(probe.action)) = code

\* A touch in a zone the table does not know, on a mood with two actions.
TouchActionAppendedWitness ==
    /\ probe.op = "map" /\ probe.done
    /\ probe.touched
    /\ probe.zone = <<3>>
    /\ probe.mood = "happy"
    /\ probe.T = TypicalTables
    /\ Len(probe.action) = 3
    /\ Last(probe.action) = TouchHug

\* word occurs in text, letter case ignored.
Occurs(word, text) ==
    \E i \in 1..Len(text) :
        /\ i + Len(word) - 1 <= Len(text)
        /\ \A k \in 1..Len(word) : LowerChar(text[i + k - 1]) = word[k]

\* C8: the tag follows strict priority, first match wins, case ignored on
\* the text: mood angry or "bad" gives criticism; else mood happy/excited or
\* "thanks" gives praise; else "joke" or "haha" gives joke; else mood sad
\* gives support; else no tag.
BehaviorTagPriority ==
    (probe.op = "tag" /\ probe.done) =>
        LET negative == probe.mood = "angry"
                        \/ Occurs(<<"b", "a", "d">>, probe.text)
            positive == probe.mood \in {"happy", "excited"}
                        \/ Occurs(<<"t", "h", "a", "n", "k", "s">>, probe.text)
            joking   == Occurs(<<"j", "o", "k", "e">>, probe.text)
                        \/ Occurs(<<"h", "a", "h", "a">>, probe.text)
        IN  /\ negative => probe.out = "criticism"
            /\ (~negative /\ positive) => probe.out = "praise"
            /\ (~negative /\ ~positive /\ joking) => probe.out = "joke"
            /\ (~negative /\ ~positive /\ ~joking /\ probe.mood = "sad")
                    => probe.out = "support"
            /\ (~negative /\ ~positive /\ ~joking /\ probe.mood /= "sad")
                    => probe.out = None

\* Mood happy, a text with "bad" (in mixed case) and "thanks": criticism.
BehaviorTagPriorityWitness ==
    /\ probe.op = "tag" /\ probe.done
    /\ probe.mood = "happy"
    /\ probe.text = <<"B", "a", "D", "t", "h", "a", "n", "k", "s">>
    /\ probe.out = "criticism"

\* The summary ends with the dominant-mood clause.
EndsWithMoodClause(summary) ==
    \E m \in {"sad", "neutral"} :
        /\ Len(summary) >= Len(MoodClause(m))
        /\ SubSeq(summary, Len(summary) - Len(MoodClause(m)) + 1, Len(summary))
               = MoodClause(m)

\* Some mood other than neutral occurs strictly more often than every other
\* mood among the surviving records.
StrictlyDominantMood(valid) ==
    \E m \in {valid[i].mood : i \in 1..Len(valid)} :
        /\ m /= "neutral"
        /\ \A n \in {valid[i].mood : i \in 1..Len(valid)} \ {m} :
               MoodCount(valid, m) > MoodCount(valid, n)

\* C9: the summary gets the dominant-mood clause only when a non-neutral
\* mood is strictly the most frequent among the surviving records; on a tie
\* for the highest count there is no clause, whatever the records' order.
MoodClauseOnlyWhenStrict ==
    (probe.op = "summary" /\ probe.done /\ EndsWithMoodClause(probe.out)) =>
        StrictlyDominantMood(valid_responses(probe.past))

====
